---- MODULE Spec2Model ----
(***************************************************************************)
(* Model of scraper.py: the NCERT textbook scraper.                        *)
(*                                                                         *)
(* main() drives one browser session through a dependent three-level       *)
(* selection interface (class, subject, book), gathers every               *)
(* (subject, title) pair, then for each pair re-navigates to the detail    *)
(* view, reads the "Download complete book" anchor, hands the resulting    *)
(* URL to download_and_extract() and finally writes two manifest files.    *)
(*                                                                         *)
(* Text is modelled as sequences of one-character strings (file names,     *)
(* ids) or of URL tokens (references), so that sanitising, joining and     *)
(* prefixing are computed and not assumed.                                 *)
(***************************************************************************)
EXTENDS Integers, Sequences, FiniteSets, TLC

(***************************************************************************)
(* Bounds of the model.                                                    *)
(***************************************************************************)
\* longest archive listing enumerated for download_and_extract
MaxMembers == 2
\* longest name enumerated for sanitize_filename
MaxNameLen == 3
\* longest entry list enumerated for the resolution loop
MaxEntries == 2

(***************************************************************************)
(* Characters and sanitize_filename.                                       *)
(***************************************************************************)
LowerLetters == <<"a","b","c","d","e","f","g","h","i","j","k","l","m",
                  "n","o","p","q","r","s","t","u","v","w","x","y","z">>
UpperLetters == <<"A","B","C","D","E","F","G","H","I","J","K","L","M",
                  "N","O","P","Q","R","S","T","U","V","W","X","Y","Z">>
Digits == <<"0","1","2","3","4","5","6","7","8","9">>

Range(f) == {f[x] : x \in DOMAIN f}

\* str.lower() on one character
LowerChar(c) ==
    IF c \in Range(UpperLetters)
    THEN LowerLetters[CHOOSE k \in DOMAIN UpperLetters : UpperLetters[k] = c]
    ELSE c

\* str.lower()
Lower(s) == [k \in 1..Len(s) |-> LowerChar(s[k])]

\* the character class [a-zA-Z0-9_.-] of the regular expression
KeptChars == Range(LowerLetters) \cup Range(UpperLetters) \cup Range(Digits)
             \cup {"_", ".", "-"}

\* sanitize_filename without the call of lower()
sanitize_filename_cased(name) ==
    [k \in 1..Len(name) |-> IF name[k] \in KeptChars THEN name[k] ELSE "_"]

\* re.sub(r'[^a-zA-Z0-9_.-]', '_', name).lower()
sanitize_filename(name) ==
    Lower([k \in 1..Len(name) |-> IF name[k] \in KeptChars THEN name[k] ELSE "_"])

\* str.endswith
EndsWith(s, suffix) ==
    /\ Len(s) >= Len(suffix)
    /\ SubSeq(s, Len(s) - Len(suffix) + 1, Len(s)) = suffix

\* int(class_number)
RECURSIVE ParseInt(_)
ParseInt(s) ==
    IF s = <<>> THEN 0
    ELSE LET d == CHOOSE k \in DOMAIN Digits : Digits[k] = s[Len(s)]
         IN  ParseInt(SubSeq(s, 1, Len(s) - 1)) * Len(Digits) + (d - 1)

(***************************************************************************)
(* Paths and identifiers built by download_and_extract.                    *)
(***************************************************************************)
\* os.path.join('downloads', f'class_{class_num}')
output_dir(class_num) == <<"d","o","w","n","l","o","a","d","s","/",
                           "c","l","a","s","s","_">> \o class_num

\* f"c{class_num}_{clean_subject}_{clean_title}"
book_id(class_num, subject, title) ==
    <<"c">> \o class_num \o <<"_">> \o sanitize_filename(subject)
            \o <<"_">> \o sanitize_filename(title)

\* f"{clean_subject}_{clean_title}.pdf"
pdf_filename(subject, title) ==
    sanitize_filename(subject) \o <<"_">> \o sanitize_filename(title)
        \o <<".","p","d","f">>

\* os.path.join(output_dir, pdf_filename)
pdf_path(class_num, subject, title) ==
    output_dir(class_num) \o <<"/">> \o pdf_filename(subject, title)

(***************************************************************************)
(* References: sequences of URL tokens.                                    *)
(***************************************************************************)
\* the literal the f-string at line 118 puts in front of the anchor's href
UrlPrefix == <<"https:", "/", "/", "ncert.nic.in", "/">>

\* f"https://ncert.nic.in/{relative_url}"
MakeDownloadUrl(relative_url) == UrlPrefix \o relative_url

\* the href values the detail view's anchor may carry: site-root-relative
\* without and with a leading slash, and absolute
Hrefs == { <<"textbook", "/", "x.zip">>,
           <<"/", "textbook", "/", "x.zip">>,
           <<"https:", "/", "/", "ncert.nic.in", "/", "textbook", "/", "x.zip">> }

(***************************************************************************)
(* Archives: a listing is a sequence of members, in archive order; a       *)
(* member has a name and its uncompressed data; data has a size and a tag  *)
(* that tells equal-sized contents apart.                                  *)
(***************************************************************************)
MemberNames == { <<"a",".","p","d","f">>,
                 <<"b",".","P","D","F">>,
                 <<"c",".","j","p","g">> }

Datas == { [size |-> 10,  tag |-> "x"],
           [size |-> 500, tag |-> "y"],
           [size |-> 500, tag |-> "z"] }

Members == [name : MemberNames, data : Datas]

SeqsUpTo(n, S) == UNION {[1..k -> S] : k \in 0..n}

Archives == SeqsUpTo(MaxMembers, Members)

\* zip_ref.namelist(): every member's name, in archive order
namelist(zip) == [k \in 1..Len(zip) |-> zip[k].name]

\* zip_ref.getinfo(name): the name -> info table keeps the last member
\* listed under a name
getinfo(zip, name) ==
    zip[CHOOSE k \in 1..Len(zip) :
            /\ zip[k].name = name
            /\ \A j \in (k+1)..Len(zip) : zip[j].name # name]

\* [f for f in zip_ref.namelist() if f.lower().endswith('.pdf')]
pdf_files(zip) ==
    LET IsPdf(f) == EndsWith(Lower(f), <<".","p","d","f">>)
    IN  SelectSeq(namelist(zip), IsPdf)

\* max(names, key=...): the first element whose key no other exceeds
MaxByKey(names, Key(_)) ==
    names[CHOOSE k \in 1..Len(names) :
              /\ \A j \in 1..Len(names) : Key(names[j]) <= Key(names[k])
              /\ \A j \in 1..(k-1) : Key(names[j]) < Key(names[k])]

\* a variant that keeps the last of the largest, as a loop comparing with
\* >= would
main_pdf_name_last(zip) ==
    LET names == pdf_files(zip)
        Size(f) == getinfo(zip, f).data.size
    IN  names[CHOOSE k \in 1..Len(names) :
                  /\ \A j \in 1..Len(names) : Size(names[j]) <= Size(names[k])
                  /\ \A j \in (k+1)..Len(names) : Size(names[j]) < Size(names[k])]

\* max(pdf_files, key=lambda f: zip_ref.getinfo(f).file_size)
main_pdf_name(zip) ==
    LET Size(f) == getinfo(zip, f).data.size
    IN  MaxByKey(pdf_files(zip), Size)

\* hashlib.sha256(pdf_content).hexdigest()
sha256(content) == <<"sha256", content.size, content.tag>>

(***************************************************************************)
(* download_and_extract(url, class_num, subject, title).                   *)
(*                                                                         *)
(* The environment decides how far the call gets: `fault` names the first  *)
(* statement that raises, or "none".                                       *)
(*   fetch_status  requests.get / raise_for_status raises (line 160-161)   *)
(*   fetch_stream  iter_content raises part-way (line 163)                 *)
(*   bad_zip       zipfile.ZipFile raises BadZipFile (line 167)            *)
(*   member_open   zip_ref.open raises BadZipFile (line 175, first item)   *)
(*   read_crc      source.read raises BadZipFile (line 176)                *)
(*   read_raise    source.read raises another error (line 176)             *)
(***************************************************************************)
Faults == {"none", "fetch_status", "fetch_stream", "bad_zip",
           "member_open", "read_crc", "read_raise"}

\* the return value None
None == [kind |-> "None"]

\* a file that is not there, and a file opened for writing and not written
Absent == [size |-> 0, tag |-> "absent"]
Empty  == [size |-> 0, tag |-> "empty"]

\* zip_ref.open(name).read(): open() looks the member up with getinfo
ReadMember(zip, name) == getinfo(zip, name).data

\* how far the try block (lines 158-187) gets before it returns or raises
Stage(zip, fault) ==
    CASE fault = "fetch_status"  -> "fetch"
      [] fault = "fetch_stream"  -> "stream"
      [] fault = "bad_zip"       -> "open_zip"
      [] pdf_files(zip) = <<>>   -> "no_pdf"
      [] fault = "member_open"   -> "member_open"
      [] fault \in {"read_crc", "read_raise"} -> "read"
      [] OTHER                   -> "written"

\* the exception leaving the try block at a stage ("none": it returns)
Raises(stage, fault) ==
    CASE stage \in {"fetch", "stream"}        -> "RequestException"
      [] stage \in {"open_zip", "member_open"} -> "BadZipFile"
      [] stage = "read" /\ fault = "read_crc"  -> "BadZipFile"
      [] stage = "read"                        -> "Error"
      [] OTHER                                 -> "none"

\* whether temp.zip exists when the try block is left: open(zip_path, 'wb')
\* at line 162 creates it, nothing before does
TempAfterTry(stage, tempBefore) ==
    IF stage = "fetch" THEN tempBefore ELSE TRUE

\* a variant that opens the target before the archive is looked into
TargetOpenedFirst(stage, before, content) ==
    CASE stage = "written" -> content
      [] stage \in {"fetch", "stream"} -> before
      [] OTHER -> Empty

\* the bytes at pdf_path when the try block is left: line 175 opens the
\* member and then the target with 'wb' (truncating it) before line 176
\* reads, and line 177 writes what was read
TargetAfterTry(stage, before, content) ==
    CASE stage = "read"    -> Empty
      [] stage = "written" -> content
      [] OTHER             -> before

\* a variant without the clause at lines 192-194
ExceptRequestOnly(exc) == exc = "RequestException"

\* the except clauses (lines 189-194): the exceptions turned into None
ExceptHandlers(exc) == exc \in {"RequestException", "BadZipFile"}

\* a variant that removes nothing
FinallyKeepsTemp(temp) == temp

\* the finally clause (lines 195-197): whether temp.zip exists afterwards
FinallyCleanup(temp) == IF temp THEN FALSE ELSE temp

\* the value returned at lines 183-187
Metadata(class_num, subject, title, content) ==
    [kind     |-> "metadata",
     id       |-> book_id(class_num, subject, title),
     pdf_path |-> pdf_path(class_num, subject, title),
     sha256   |-> sha256(content)]

\* the whole call: what it returns or that it raises, and what it leaves
\* at pdf_path and at zip_path
download_and_extract(class_num, subject, title, zip, fault, before, tempBefore) ==
    LET stage   == Stage(zip, fault)
        exc     == Raises(stage, fault)
        content == IF stage \in {"read", "written"}
                   THEN ReadMember(zip, main_pdf_name(zip))
                   ELSE Empty
    IN  [stage  |-> stage,
         member |-> IF stage \in {"member_open", "read", "written"}
                    THEN main_pdf_name(zip) ELSE <<>>,
         raised |-> exc # "none" /\ ~ExceptHandlers(exc),
         ret    |-> IF stage = "written"
                    THEN Metadata(class_num, subject, title, content)
                    ELSE None,
         out    |-> TargetAfterTry(stage, before, content),
         temp   |-> FinallyCleanup(TempAfterTry(stage, tempBefore))]

(***************************************************************************)
(* The site: what the selection interface offers.                          *)
(***************************************************************************)
\* the key of CLASS_MAP the runs are started with
ClassNumbers == { <<"1","0">> }

\* display names the interface offers; "P 1" and "P_1" (and "Ma", "MA")
\* are different names that sanitize_filename maps to one
SubjectList == << <<"M","a">>, <<"M","A">> >>
SubjectNames == Range(SubjectList)
TitleList == << <<"P"," ","1">>, <<"P","_","1">> >>

\* the option lists a select may show: the first n of the names
Prefixes(list) == {SubSeq(list, 1, n) : n \in 0..Len(list)}

\* the output directory before the run: never used, or left by a run that
\* was killed while it fetched (earlier output files and temp.zip in it)
DiskStates == { [prior |-> [size |-> 0, tag |-> "absent"],  temp |-> FALSE],
                [prior |-> [size |-> 10, tag |-> "old"], temp |-> TRUE] }

\* no subject is pending a load of its title list
NoSubject == <<>>

\* the archives the server answers a run's requests with
ServedArchives ==
    { << [name |-> <<"c",".","j","p","g">>, data |-> [size |-> 10, tag |-> "x"]] >>,
      << [name |-> <<"a",".","p","d","f">>, data |-> [size |-> 500, tag |-> "y"]],
         [name |-> <<"c",".","j","p","g">>, data |-> [size |-> 10, tag |-> "x"]] >>,
      << [name |-> <<"a",".","p","d","f">>, data |-> [size |-> 10, tag |-> "x"]],
         [name |-> <<"b",".","P","D","F">>, data |-> [size |-> 500, tag |-> "z"]] >> }

(***************************************************************************)
(* State.                                                                  *)
(***************************************************************************)
VARIABLES
    pc,               \* where main() is
    session,          \* the WebDriver: "none", "open", "quit"
    class_number,     \* args.class_number
    subjectsOffered,  \* site: the subject options of the class
    titlesOf,         \* site: each subject's title options
    hrefOf,           \* site: the href of its download anchors
    tbook,            \* page: the title options the tbook select shows now
    loading,          \* page: the subject whose titles are still to arrive
    subject_options,  \* line 67
    sIdx,             \* position of the loop at line 69
    books_to_process, \* line 52
    bIdx,             \* position of the loop at line 86
    relative_url,     \* line 117
    download_url,     \* line 118
    books_to_track,   \* line 83
    hashes_data,      \* line 84
    outFiles,         \* disk: pdf_path -> bytes, for the paths written
    prior,            \* disk: the bytes at every other pdf_path
    tempExists,       \* disk: whether temp.zip exists
    books_json,       \* disk: books_to_track.json as written by this run
    hashes_json,      \* disk: hashes.json as written by this run
    flushCalls,       \* how often write_manifests was called
    log,              \* per processed entry: why and how its processing ended
    lastCall,         \* the last call of download_and_extract
    zip_ref,          \* the archive the server answered that call with
    name_in,          \* sanitize_filename on its own: the argument
    clean,            \* sanitize_filename(name_in)
    clean_again,      \* sanitize_filename(clean)
    run,              \* which run of main() this is: 1 or 2
    first_run,        \* two runs: what the first run discovered and left
    served,           \* two runs: title -> what the server answers with
    page,             \* resolution: the document the browser shows
    steps             \* resolution: the steps taken for the current entry

vars == << pc, session, class_number, subjectsOffered, titlesOf, hrefOf, tbook, loading,
           subject_options, sIdx, books_to_process, bIdx, relative_url,
           download_url, books_to_track, hashes_data, outFiles, prior,
           tempExists, books_json, hashes_json, flushCalls, log, lastCall,
           zip_ref, name_in, clean, clean_again, run, first_run, served, page, steps >>

\* the state of sanitize_filename applied on its own
nameVars == << name_in, clean, clean_again >>
\* what no statement of main() assigns: the site, the disk as it was found,
\* and the state of the functions exercised on their own
\* the state of a pair of runs
twiceVars == << run, first_run, served >>
\* the state of the resolution loop taken statement by statement
stepVars == << page, steps >>
siteVars == << class_number, subjectsOffered, titlesOf, hrefOf, prior, nameVars,
               twiceVars, stepVars >>
pageVars == << tbook, loading >>
discVars == << subject_options, sIdx, books_to_process >>
urlVars  == << relative_url, download_url >>
accVars  == << books_to_track, hashes_data >>
diskVars == << outFiles, tempExists, lastCall, zip_ref >>
jsonVars == << books_json, hashes_json, flushCalls >>

NotWritten == [written |-> FALSE, data |-> <<>>]
EmptyMap   == [k \in {} |-> None]
NoCall     == [idx |-> 0]

\* the bytes at a pdf_path
FileAt(files, dflt, path) == IF path \in DOMAIN files THEN files[path] ELSE dflt

\* d[key] = value
MapPut(d, key, value) ==
    [k \in DOMAIN d \cup {key} |-> IF k = key THEN value ELSE d[k]]

\* sanitize_filename has not been applied on its own
NoName == /\ name_in = <<>>
          /\ clean = <<>>
          /\ clean_again = <<>>

\* the document right after driver.get(BASE_URL): the selects hold their
\* placeholder only, nothing is selected, nothing is being loaded, and no
\* detail view is shown
FreshPage == [tsubject |-> <<>>, tbook |-> <<>>, class |-> <<>>,
              subject |-> <<>>, title |-> <<>>, pending |-> "none",
              anchor |-> FALSE]

\* the resolution loop is taken in one step (ResolveNavigate)
NoSteps == /\ page = FreshPage
           /\ steps = <<>>

\* no run before this one
NoRun == [pairs |-> <<>>, ids |-> <<>>, files |-> EmptyMap, hashes |-> EmptyMap]

\* main() is run once, the server answering as each action chooses
OneRun == /\ run = 1
          /\ first_run = NoRun
          /\ served = EmptyMap

\* main() has not assigned anything yet
Fresh ==
    /\ session = "none"
    /\ tbook = <<>>
    /\ loading = NoSubject
    /\ subject_options = <<>>
    /\ sIdx = 0
    /\ books_to_process = <<>>
    /\ bIdx = 0
    /\ relative_url = <<>>
    /\ download_url = <<>>
    /\ books_to_track = <<>>
    /\ hashes_data = EmptyMap
    /\ outFiles = EmptyMap
    /\ books_json = NotWritten
    /\ hashes_json = NotWritten
    /\ flushCalls = 0
    /\ log = <<>>
    /\ lastCall = NoCall
    /\ zip_ref = <<>>

Init ==
    /\ pc = "start"
    /\ class_number \in ClassNumbers
    /\ subjectsOffered \in Prefixes(SubjectList)
    /\ hrefOf \in Hrefs
    /\ titlesOf \in [SubjectNames -> Prefixes(TitleList)]
    /\ \A s \in SubjectNames : s \notin Range(subjectsOffered) => titlesOf[s] = <<>>
    /\ \E d \in DiskStates : prior = d.prior /\ tempExists = d.temp
    /\ Fresh
    /\ NoName
    /\ OneRun
    /\ NoSteps

(***************************************************************************)
(* main(): session set-up, lines 46-49.                                    *)
(***************************************************************************)
\* the finally clause of main (lines 137-139): driver.quit()
FinallyQuit == "quit"

\* an exception leaves the try block of main (lines 51-135): the finally
\* clause runs, nothing else does
Abort ==
    /\ pc' = "aborted"
    /\ session' = FinallyQuit

\* lines 47-48: webdriver.Chrome(service=service)
CreateSession ==
    /\ pc = "start"
    /\ pc' = "get"
    /\ session' = "open"
    /\ UNCHANGED << siteVars, pageVars, discVars, bIdx, urlVars, accVars,
                    diskVars, jsonVars, log >>

\* line 49: driver.get(BASE_URL), before the try block is entered; when it
\* raises, main is left with no handler and no finally clause around it
InitialGet ==
    /\ pc = "get"
    /\ \/ pc' = "select_class"
       \/ pc' = "crashed"
    /\ UNCHANGED << session, siteVars, pageVars, discVars, bIdx, urlVars,
                    accVars, diskVars, jsonVars, log >>

(***************************************************************************)
(* main(): step 1, gathering the book combinations, lines 58-80.           *)
(***************************************************************************)
\* where the loop at line 69 goes once sIdx has moved to n
AfterSubject(n, options) ==
    IF n <= Len(options) THEN "select_subject" ELSE "resolve"

\* lines 59-67: select the class, wait for a second subject option, read
\* the subject options; the wait times out when none arrives in time
DiscoverClass ==
    /\ pc = "select_class"
    /\ \/ /\ subjectsOffered # <<>>
          /\ subject_options' = subjectsOffered
          /\ sIdx' = 1
          /\ bIdx' = 1
          /\ pc' = AfterSubject(1, subjectsOffered)
          /\ UNCHANGED << session, books_to_process >>
       \/ /\ Abort
          /\ UNCHANGED << discVars, bIdx >>
    /\ UNCHANGED << siteVars, pageVars, urlVars, accVars, diskVars, jsonVars, log >>

\* line 70: select the subject; the page starts loading its titles
SelectSubject ==
    /\ pc = "select_subject"
    /\ loading' = subject_options[sIdx]
    /\ pc' = "wait_titles"
    /\ UNCHANGED << session, siteVars, tbook, discVars, bIdx, urlVars, accVars,
                    diskVars, jsonVars, log >>

\* the page: the titles of the selected subject arrive
PageLoadTitles ==
    /\ pc = "wait_titles"
    /\ loading # NoSubject
    /\ tbook' = titlesOf[loading]
    /\ loading' = NoSubject
    /\ UNCHANGED << pc, session, siteVars, discVars, bIdx, urlVars, accVars,
                    diskVars, jsonVars, log >>

\* the pairs lines 77-78 append for one subject
PairsOf(subject_name, book_options) ==
    [k \in 1..Len(book_options) |->
        [subject |-> subject_name, title |-> book_options[k]]]

\* lines 71-78: the wait is over as soon as the tbook select shows a second
\* option, whichever subject it was loaded for; then the options are read
ReadTitles ==
    /\ pc = "wait_titles"
    /\ tbook # <<>>
    /\ books_to_process' =
           books_to_process \o PairsOf(subject_options[sIdx], tbook)
    /\ sIdx' = sIdx + 1
    /\ pc' = AfterSubject(sIdx + 1, subject_options)
    /\ UNCHANGED << session, siteVars, pageVars, subject_options, bIdx, urlVars,
                    accVars, diskVars, jsonVars, log >>

\* line 71: no second option within the timeout
WaitTitlesTimeout ==
    /\ pc = "wait_titles"
    /\ tbook = <<>>
    /\ Abort
    /\ UNCHANGED << siteVars, pageVars, discVars, bIdx, urlVars, accVars,
                    diskVars, jsonVars, log >>

(***************************************************************************)
(* main(): step 2, processing each book, lines 86-132.                     *)
(***************************************************************************)
\* a variant with the call of write_manifests inside the loop body
AfterEntryFlushEarly(n, books) == "flush"

\* where the loop at line 86 goes once bIdx has moved to n
AfterEntry(n, books) == IF n <= Len(books) THEN "resolve" ELSE "flush"

\* the record of how the processing of one entry ended
Ended(cause, result) == [cause |-> cause, result |-> result]

\* the loop moves on to the next entry
NextEntry ==
    /\ bIdx' = bIdx + 1
    /\ pc' = AfterEntry(bIdx + 1, books_to_process)
    /\ UNCHANGED session

\* lines 91-105: reload the entry page, select class, subject and title,
\* each after its wait, and click; a wait that times out or a title the
\* subject's list does not hold raises
ResolveNavigate ==
    /\ pc = "resolve"
    /\ tbook' = <<>>
    /\ loading' = NoSubject
    /\ LET book == books_to_process[bIdx]
       IN  \/ /\ book.title \in Range(titlesOf[book.subject])
              /\ pc' = "await_anchor"
              /\ UNCHANGED << session, log >>
           \/ /\ Abort
              /\ log' = Append(log, Ended("navigation", "aborted"))
    /\ UNCHANGED << siteVars, discVars, bIdx, urlVars, accVars, diskVars, jsonVars >>

\* line 106: wait.until(presence of the link 'Download complete book');
\* when the detail view never shows it, TimeoutException is raised
AwaitAnchor ==
    /\ pc = "await_anchor"
    /\ \/ /\ pc' = "scan"
          /\ UNCHANGED << session, log >>
       \/ /\ Abort
          /\ log' = Append(log, Ended("anchor_timeout", "aborted"))
    /\ UNCHANGED << siteVars, pageVars, discVars, bIdx, urlVars, accVars,
                    diskVars, jsonVars >>

\* lines 109-118: soup.find('a', string=...) on the page source; an anchor
\* whose text sits in a child element is not matched, and the entry is
\* skipped; otherwise the href is read and prefixed
ScanPage ==
    /\ pc = "scan"
    /\ \/ /\ NextEntry
          /\ log' = Append(log, Ended("anchor_unmatched", "skipped"))
          /\ UNCHANGED urlVars
       \/ /\ relative_url' = hrefOf
          /\ download_url' = MakeDownloadUrl(hrefOf)
          /\ pc' = "download"
          /\ UNCHANGED << session, bIdx, log >>
    /\ UNCHANGED << siteVars, pageVars, discVars, accVars, diskVars, jsonVars >>

\* lines 123-130
BookEntry(class_num, book, metadata, url) ==
    [id           |-> metadata.id,
     class        |-> ParseInt(class_num),
     subject      |-> book.subject,
     title        |-> book.title,
     pdf_path     |-> metadata.pdf_path,
     download_url |-> url]

\* a variant that puts the new record first
TrackPrepended(track, class_num, book, metadata, url) ==
    IF metadata # None
    THEN <<BookEntry(class_num, book, metadata, url)>> \o track
    ELSE track

\* lines 122-131: books_to_track after the call returned metadata
TrackAfter(track, class_num, book, metadata, url) ==
    IF metadata # None
    THEN Append(track, BookEntry(class_num, book, metadata, url))
    ELSE track

\* lines 122, 132: hashes_data after the call returned metadata
HashesAfter(hashes, metadata) ==
    IF metadata # None
    THEN MapPut(hashes, metadata.id, metadata.sha256)
    ELSE hashes

\* lines 120-132: the call, answered with one of `zips` and going wrong in
\* one of the ways `faults`, and the bookkeeping when it returned metadata
DownloadWith(zips, faults) ==
    /\ pc = "download"
    /\ \E zip \in zips, fault \in faults :
          LET book   == books_to_process[bIdx]
              path   == pdf_path(class_number, book.subject, book.title)
              before == FileAt(outFiles, prior, path)
              r      == download_and_extract(class_number, book.subject,
                            book.title, zip, fault, before, tempExists)
          IN  /\ fault \in {"member_open", "read_crc", "read_raise"}
                     => pdf_files(zip) # <<>>
              /\ outFiles' = IF r.out = before THEN outFiles
                             ELSE MapPut(outFiles, path, r.out)
              /\ tempExists' = r.temp
              /\ zip_ref' = IF r.stage \in {"fetch", "stream", "open_zip"}
                            THEN <<>> ELSE zip
              /\ lastCall' = [idx |-> bIdx, fault |-> fault,
                              stage |-> r.stage, member |-> r.member,
                              raised |-> r.raised,
                              ret |-> r.ret, path |-> path, before |-> before,
                              after |-> r.out, tempBefore |-> tempExists]
              /\ IF r.raised
                 THEN /\ Abort
                      /\ log' = Append(log, Ended("retrieval", "aborted"))
                      /\ UNCHANGED << bIdx, accVars >>
                 ELSE /\ NextEntry
                      /\ books_to_track' = TrackAfter(books_to_track,
                             class_number, book, r.ret, download_url)
                      /\ hashes_data' = HashesAfter(hashes_data, r.ret)
                      /\ log' = Append(log, Ended("retrieval",
                             IF r.ret # None THEN "success" ELSE "skipped"))
    /\ UNCHANGED << siteVars, pageVars, discVars, urlVars, jsonVars >>

\* the call, answered with one of `zips` and going wrong in any way
DownloadFrom(zips) == DownloadWith(zips, Faults)

Download == DownloadFrom(ServedArchives)

(***************************************************************************)
(* main(): step 3, write_manifests, lines 135 and 199-208.                 *)
(***************************************************************************)
\* how a call of write_manifests can go: both files written, the first
\* open raising, the second open raising
FlushOutcomes == {"ok", "fail_first", "fail_second"}

\* lines 202-203: books_to_track.json
WriteBooks(io, track, old) ==
    IF io \in {"ok", "fail_second"} THEN [written |-> TRUE, data |-> track]
    ELSE old

\* lines 205-206: hashes.json
WriteHashes(io, hashes, old) ==
    IF io = "ok" THEN [written |-> TRUE, data |-> hashes] ELSE old

\* line 135, then the finally clause
Flush ==
    /\ pc = "flush"
    /\ \E io \in FlushOutcomes :
          /\ books_json' = WriteBooks(io, books_to_track, books_json)
          /\ hashes_json' = WriteHashes(io, hashes_data, hashes_json)
          /\ flushCalls' = flushCalls + 1
          /\ IF io = "ok"
             THEN pc' = "done" /\ session' = FinallyQuit
             ELSE Abort
    /\ UNCHANGED << siteVars, pageVars, discVars, bIdx, urlVars, accVars,
                    diskVars, log >>

Next ==
    \/ CreateSession
    \/ InitialGet
    \/ DiscoverClass
    \/ SelectSubject
    \/ PageLoadTitles
    \/ ReadTitles
    \/ WaitTitlesTimeout
    \/ ResolveNavigate
    \/ AwaitAnchor
    \/ ScanPage
    \/ Download
    \/ Flush

Spec == Init /\ [][Next]_vars

(***************************************************************************)
(* download_and_extract on its own: one entry is about to be retrieved,    *)
(* and the server answers with any archive of up to MaxMembers members.    *)
(***************************************************************************)
InitExtract ==
    /\ pc = "download"
    /\ session = "open"
    /\ class_number \in ClassNumbers
    /\ subjectsOffered = SubSeq(SubjectList, 1, 1)
    /\ titlesOf = [s \in SubjectNames |->
                      IF s = SubjectList[1] THEN SubSeq(TitleList, 1, 1) ELSE <<>>]
    /\ hrefOf = <<"textbook", "/", "x.zip">>
    /\ \E d \in DiskStates : prior = d.prior /\ tempExists = d.temp
    /\ tbook = <<>>
    /\ loading = NoSubject
    /\ subject_options = subjectsOffered
    /\ sIdx = 2
    /\ books_to_process = PairsOf(SubjectList[1], titlesOf[SubjectList[1]])
    /\ bIdx = 1
    /\ relative_url = hrefOf
    /\ download_url = MakeDownloadUrl(hrefOf)
    /\ books_to_track = <<>>
    /\ hashes_data = EmptyMap
    /\ outFiles = EmptyMap
    /\ books_json = NotWritten
    /\ hashes_json = NotWritten
    /\ flushCalls = 0
    /\ log = <<>>
    /\ lastCall = NoCall
    /\ zip_ref = <<>>
    /\ NoName
    /\ OneRun
    /\ NoSteps

DownloadAny == DownloadFrom(Archives)

NextExtract == DownloadAny

SpecExtract == InitExtract /\ [][NextExtract]_vars

(***************************************************************************)
(* sanitize_filename on its own: applied to every name of up to            *)
(* MaxNameLen characters, and then to its own result.                      *)
(***************************************************************************)
\* kept lower-case letter, upper-case letter, digit, the three kept marks,
\* and three characters outside the class
NameChars == {"a", "Z", "7", "_", ".", "-", " ", "/", "(" }

Names == SeqsUpTo(MaxNameLen, NameChars)

\* main() is not running: no site, nothing on disk
NoSite ==
    /\ class_number \in ClassNumbers
    /\ subjectsOffered = <<>>
    /\ titlesOf = [s \in SubjectNames |-> <<>>]
    /\ hrefOf = <<>>
    /\ prior = Absent
    /\ tempExists = FALSE

InitSanitize ==
    /\ pc = "sanitize"
    /\ NoSite
    /\ Fresh
    /\ name_in \in Names
    /\ clean = <<>>
    /\ clean_again = <<>>
    /\ OneRun
    /\ NoSteps

runVars == << session, class_number, subjectsOffered, titlesOf, hrefOf, prior,
             pageVars, discVars, bIdx, urlVars, accVars, diskVars, jsonVars, log,
             twiceVars, stepVars >>

Sanitize ==
    /\ pc = "sanitize"
    /\ clean' = sanitize_filename(name_in)
    /\ pc' = "sanitized"
    /\ UNCHANGED << name_in, clean_again, runVars >>

SanitizeAgain ==
    /\ pc = "sanitized"
    /\ clean_again' = sanitize_filename(clean)
    /\ pc' = "sanitized_again"
    /\ UNCHANGED << name_in, clean, runVars >>

NextSanitize == Sanitize \/ SanitizeAgain

SpecSanitize == InitSanitize /\ [][NextSanitize]_vars

(***************************************************************************)
(* main() run twice against one site: the catalog and what the server      *)
(* answers for each title are fixed, the second run starts on the disk     *)
(* the first one left.                                                     *)
(***************************************************************************)
\* the catalog of the two runs: names that stay distinct when sanitised
TwiceSubjects == << <<"M","a">>, <<"S","c">> >>
TwiceTitles   == << <<"P","1">>, <<"P","2">> >>

\* what the server answers for a title: an archive, and what is wrong with
\* it (nothing, or a member whose bytes fail their CRC)
Answers ==
    { [zip |-> << [name |-> <<"c",".","j","p","g">>, data |-> [size |-> 10, tag |-> "x"]] >>,
       fault |-> "none"],
      [zip |-> << [name |-> <<"a",".","p","d","f">>, data |-> [size |-> 500, tag |-> "y"]],
                  [name |-> <<"c",".","j","p","g">>, data |-> [size |-> 10, tag |-> "x"]] >>,
       fault |-> "none"],
      [zip |-> << [name |-> <<"a",".","p","d","f">>, data |-> [size |-> 10, tag |-> "x"]],
                  [name |-> <<"b",".","P","D","F">>, data |-> [size |-> 500, tag |-> "z"]] >>,
       fault |-> "read_crc"] }

InitTwice ==
    /\ pc = "start"
    /\ class_number \in ClassNumbers
    /\ subjectsOffered = TwiceSubjects
    /\ hrefOf = <<"textbook", "/", "x.zip">>
    /\ titlesOf \in [Range(TwiceSubjects) -> Prefixes(TwiceTitles) \ {<<>>}]
    /\ \E d \in DiskStates : prior = d.prior /\ tempExists = d.temp
    /\ Fresh
    /\ NoName
    /\ run = 1
    /\ first_run = NoRun
    /\ served \in [Range(TwiceTitles) -> Answers]
    /\ NoSteps

\* lines 109-118 on a detail view whose anchor soup.find matches
ScanAnchor == ScanPage /\ pc' = "download"

\* lines 120-132, the server answering as fixed for the entry's title
DownloadServed ==
    /\ pc = "download"
    /\ LET answer == served[books_to_process[bIdx].title]
       IN  DownloadWith({answer.zip}, {answer.fault})

\* the ids of the records of books_to_track
IdsOf(track) == [k \in DOMAIN track |-> track[k].id]

\* main() returned after write_manifests; it is started again
Restart ==
    /\ pc = "done"
    /\ run = 1
    /\ run' = 2
    /\ first_run' = [pairs |-> books_to_process, ids |-> IdsOf(books_to_track),
                     files |-> outFiles, hashes |-> hashes_data]
    /\ pc' = "start"
    /\ session' = "none"
    /\ tbook' = <<>>
    /\ loading' = NoSubject
    /\ subject_options' = <<>>
    /\ sIdx' = 0
    /\ books_to_process' = <<>>
    /\ bIdx' = 0
    /\ relative_url' = <<>>
    /\ download_url' = <<>>
    /\ books_to_track' = <<>>
    /\ hashes_data' = EmptyMap
    /\ flushCalls' = 0
    /\ log' = <<>>
    /\ lastCall' = NoCall
    /\ zip_ref' = <<>>
    /\ UNCHANGED << class_number, subjectsOffered, titlesOf, hrefOf, prior,
                    nameVars, served, stepVars, outFiles, tempExists,
                    books_json, hashes_json >>

NextTwice ==
    \/ CreateSession
    \/ InitialGet
    \/ DiscoverClass
    \/ SelectSubject
    \/ PageLoadTitles
    \/ ReadTitles
    \/ WaitTitlesTimeout
    \/ ResolveNavigate
    \/ AwaitAnchor
    \/ ScanAnchor
    \/ DownloadServed
    \/ Flush
    \/ Restart

SpecTwice == InitTwice /\ [][NextTwice]_vars

(***************************************************************************)
(* The resolution loop, lines 86-111, statement by statement, with the     *)
(* page as the browser shows it: the site fills the subject select after   *)
(* a class is selected, the title select after a subject is selected, and  *)
(* the detail view after the button is clicked.  The retrieval that        *)
(* follows the scan is left out here.                                      *)
(***************************************************************************)
\* a variant of driver.get that keeps the document it finds
PageKept(shown) == shown

\* line 91: driver.get(BASE_URL) loads a new document
PageAfterGet(shown) == FreshPage

\* every (subject, title) pair over the catalog's names
AllPairs == {[subject |-> sn, title |-> t] :
                sn \in Range(TwiceSubjects), t \in Range(TwiceTitles)}

InitResolve ==
    /\ pc = "r_get"
    /\ class_number \in ClassNumbers
    /\ subjectsOffered = TwiceSubjects
    /\ hrefOf = <<"textbook", "/", "x.zip">>
    /\ titlesOf \in [Range(TwiceSubjects) -> Prefixes(TwiceTitles)]
    /\ prior = Absent
    /\ tempExists = FALSE
    /\ session = "open"
    /\ tbook = <<>>
    /\ loading = NoSubject
    /\ subject_options = subjectsOffered
    /\ sIdx = Len(subject_options) + 1
    /\ books_to_process \in SeqsUpTo(MaxEntries, AllPairs) \ {<<>>}
    /\ bIdx = 1
    /\ relative_url = <<>>
    /\ download_url = <<>>
    /\ books_to_track = <<>>
    /\ hashes_data = EmptyMap
    /\ outFiles = EmptyMap
    /\ books_json = NotWritten
    /\ hashes_json = NotWritten
    /\ flushCalls = 0
    /\ log = <<>>
    /\ lastCall = NoCall
    /\ zip_ref = <<>>
    /\ NoName
    /\ OneRun
    /\ NoSteps

\* what is left alone by every step of the resolution
restVars == << class_number, subjectsOffered, titlesOf, hrefOf, prior, nameVars,
              twiceVars, pageVars, discVars, urlVars, accVars, diskVars,
              jsonVars, log >>

\* one step taken for the current entry, with the document it was taken on
Step(n) == [step |-> n, page |-> page, book |-> books_to_process[bIdx]]

\* line 91
ResolveGet ==
    /\ pc = "r_get"
    /\ page' = PageAfterGet(page)
    /\ steps' = << Step("reload") >>
    /\ pc' = "r_class"
    /\ UNCHANGED << session, bIdx, restVars >>

\* lines 94-95: the class select is there; select the class
ResolveClass ==
    /\ pc = "r_class"
    /\ page' = [page EXCEPT !.class = class_number, !.pending = "subjects"]
    /\ steps' = Append(steps, Step("class"))
    /\ pc' = "r_subject"
    /\ UNCHANGED << session, bIdx, restVars >>

\* the site: what the page was waiting for arrives
PageLoads ==
    /\ pc \in {"r_subject", "r_title", "r_click", "r_anchor"}
    /\ page.pending # "none"
    /\ \E found \in BOOLEAN :
          page' = CASE page.pending = "subjects" ->
                         [page EXCEPT !.tsubject = subjectsOffered,
                                      !.pending = "none"]
                    [] page.pending = "titles" ->
                         [page EXCEPT !.tbook = titlesOf[page.subject],
                                      !.pending = "none"]
                    [] page.pending = "detail" ->
                         [page EXCEPT !.anchor = found, !.pending = "none"]
    /\ UNCHANGED << pc, session, bIdx, steps, restVars >>

\* lines 96-99: the subject select shows a second option; select the subject
ResolveSubject ==
    /\ pc = "r_subject"
    /\ page.tsubject # <<>>
    /\ books_to_process[bIdx].subject \in Range(page.tsubject)
    /\ page' = [page EXCEPT !.subject = books_to_process[bIdx].subject,
                            !.pending = "titles"]
    /\ steps' = Append(steps, Step("subject"))
    /\ pc' = "r_title"
    /\ UNCHANGED << session, bIdx, restVars >>

\* lines 100-103: the title select shows a second option; select the title
ResolveTitle ==
    /\ pc = "r_title"
    /\ page.tbook # <<>>
    /\ books_to_process[bIdx].title \in Range(page.tbook)
    /\ page' = [page EXCEPT !.title = books_to_process[bIdx].title]
    /\ steps' = Append(steps, Step("title"))
    /\ pc' = "r_click"
    /\ UNCHANGED << session, bIdx, restVars >>

\* line 105: click the button
ResolveClick ==
    /\ pc = "r_click"
    /\ page' = [page EXCEPT !.pending = "detail"]
    /\ steps' = Append(steps, Step("submit"))
    /\ pc' = "r_anchor"
    /\ UNCHANGED << session, bIdx, restVars >>

\* line 106: the link 'Download complete book' is present
ResolveAnchor ==
    /\ pc = "r_anchor"
    /\ page.anchor
    /\ steps' = Append(steps, Step("detail"))
    /\ pc' = "r_scan"
    /\ UNCHANGED << session, bIdx, page, restVars >>

\* lines 109-111: the page source is parsed and searched; the loop goes on
ResolveScan ==
    /\ pc = "r_scan"
    /\ steps' = Append(steps, Step("scan"))
    /\ bIdx' = bIdx + 1
    /\ pc' = IF bIdx + 1 <= Len(books_to_process) THEN "r_get" ELSE "r_done"
    /\ UNCHANGED << session, page, restVars >>

\* lines 94, 96, 100, 106: what a wait polls for is not there within the
\* timeout (the class select is missing when the site served another page)
ResolveTimeout ==
    /\ \/ pc = "r_class"
       \/ pc = "r_subject" /\ page.tsubject = <<>>
       \/ pc = "r_title" /\ page.tbook = <<>>
       \/ pc = "r_anchor" /\ ~page.anchor
    /\ Abort
    /\ UNCHANGED << bIdx, stepVars, restVars >>

\* lines 99, 103: select_by_visible_text finds no option with the text
ResolveNoOption ==
    /\ \/ /\ pc = "r_subject"
          /\ page.tsubject # <<>>
          /\ books_to_process[bIdx].subject \notin Range(page.tsubject)
       \/ /\ pc = "r_title"
          /\ page.tbook # <<>>
          /\ books_to_process[bIdx].title \notin Range(page.tbook)
    /\ Abort
    /\ UNCHANGED << bIdx, stepVars, restVars >>

NextResolve ==
    \/ ResolveGet
    \/ ResolveClass
    \/ PageLoads
    \/ ResolveSubject
    \/ ResolveTitle
    \/ ResolveClick
    \/ ResolveAnchor
    \/ ResolveScan
    \/ ResolveTimeout
    \/ ResolveNoOption

SpecResolve == InitResolve /\ [][NextResolve]_vars

(***************************************************************************)
(* Properties.                                                             *)
(***************************************************************************)
Terminal == {"done", "aborted", "crashed"}

\* C1: every entry whose detail view never exposes the download anchor
\* (the wait at line 106 times out, or the page scan matches no anchor)
\* ends in a skip, and the run goes on.
C1_AnchorlessEntryIsSkipped ==
    \A k \in DOMAIN log :
        log[k].cause \in {"anchor_timeout", "anchor_unmatched"}
            => log[k].result = "skipped"

\* the stages at which a retrieval fails with a fetch error, an unreadable
\* archive or an archive without a content file
RetrievalFailures == {"fetch", "stream", "open_zip", "no_pdf"}

\* C2: when retrieval fails with a fetch error, an unreadable archive or an
\* archive without a recognized content file, download_and_extract returns
\* None and does not raise, the manifest list and the hash index stay as
\* they were, and the loop moves on to the next entry.
C2_RetrievalFailureSkipsEntry ==
    [][ (pc = "download" /\ lastCall'.stage \in RetrievalFailures)
          => /\ ~lastCall'.raised
             /\ lastCall'.ret = None
             /\ books_to_track' = books_to_track
             /\ hashes_data' = hashes_data
             /\ bIdx' = bIdx + 1
             /\ pc' \in {"resolve", "flush"}
             /\ log' = Append(log, Ended("retrieval", "skipped")) ]_vars

\* a corrupt archive was skipped and the run is at the next entry
C2_Witness ==
    /\ lastCall.idx > 0
    /\ lastCall.stage = "open_zip"
    /\ pc = "resolve"
    /\ bIdx = lastCall.idx + 1
    /\ log[lastCall.idx].result = "skipped"

\* every discovered entry has been processed to success or skip
AllEntriesProcessed ==
    /\ sIdx > Len(subject_options)
    /\ Len(log) = Len(books_to_process)
    /\ \A k \in DOMAIN log : log[k].result \in {"success", "skipped"}

\* C3: write_manifests is called at most once per run and only after every
\* discovered entry was processed to success or skip; a run that ends
\* before that has written neither books_to_track.json nor hashes.json.
C3_FlushOnceAfterAllEntries ==
    /\ flushCalls <= 1
    /\ flushCalls > 0 => AllEntriesProcessed
    /\ flushCalls = 0 => ~books_json.written /\ ~hashes_json.written
    /\ (pc = "aborted" /\ ~AllEntriesProcessed)
           => ~books_json.written /\ ~hashes_json.written

\* a run aborted while processing its second entry, after a success:
\* nothing was written
C3_Witness ==
    /\ pc = "aborted"
    /\ Len(log) = 2
    /\ log[1].result = "success"
    /\ log[2].result = "aborted"
    /\ Len(books_to_process) > 2
    /\ ~books_json.written /\ ~hashes_json.written

\* C4: on every way the run can end once the session exists (completion,
\* discovery failure, an error in an entry, a flush failure, a failure of
\* the first driver.get), the session has been quit.
C4_SessionReleasedOnEveryExit ==
    pc \in Terminal => session = "quit"

\* C5: after download_and_extract returned or raised, whatever the exit
\* path, temp.zip does not exist.
C5_TempFileRemoved ==
    lastCall.idx > 0 => ~tempExists

\* the call raised out of the read, with temp.zip on disk before and during
\* the call
C5_Witness ==
    /\ lastCall.idx > 0
    /\ lastCall.raised
    /\ lastCall.stage = "read"
    /\ lastCall.tempBefore
    /\ ~tempExists

\* C6: when reading the content out of the archive fails, the output path
\* is exactly as it was before the call: not created, not truncated.
C6_FailedReadLeavesOutput ==
    (lastCall.idx > 0 /\ lastCall.stage = "read")
        => /\ lastCall.after = lastCall.before
           /\ FileAt(outFiles, prior, lastCall.path) = lastCall.before

\* C7: when the archive holds no recognized content file, or the fetch
\* fails before or during streaming, download_and_extract returns None and
\* the output file is unchanged: absent if it was absent, its previous
\* bytes if it was there.
C7_NoContentOrFetchFailureLeavesOutput ==
    (lastCall.idx > 0 /\ lastCall.stage \in {"no_pdf", "fetch", "stream"})
        => /\ lastCall.ret = None
           /\ ~lastCall.raised
           /\ lastCall.after = lastCall.before
           /\ FileAt(outFiles, prior, lastCall.path) = lastCall.before

\* an archive without a content file arrived for an entry whose output
\* file this run had written before: the bytes are still there
C7_Witness ==
    /\ lastCall.idx > 0
    /\ lastCall.stage = "no_pdf"
    /\ lastCall.path \in DOMAIN outFiles
    /\ lastCall.before.size = 500
    /\ outFiles[lastCall.path] = lastCall.before

\* the (subject, title) pairs of the first n entries that ended in success
RECURSIVE SuccessPairs(_)
SuccessPairs(n) ==
    IF n = 0 THEN <<>>
    ELSE IF log[n].result = "success"
         THEN Append(SuccessPairs(n - 1), books_to_process[n])
         ELSE SuccessPairs(n - 1)

\* the (subject, title) pairs of the records of a manifest list
RecordPairs(track) ==
    [k \in 1..Len(track) |->
        [subject |-> track[k].subject, title |-> track[k].title]]

\* C8: at flush time the manifest list holds exactly one record per entry
\* that was retrieved successfully, in processing order, and none for a
\* skipped entry; the keys of the hash index are exactly the ids of those
\* records; what is written is that list and that index.
C8_ManifestHoldsSuccessesInOrder ==
    (pc = "flush" \/ flushCalls > 0)
        => /\ RecordPairs(books_to_track) = SuccessPairs(Len(log))
           /\ DOMAIN hashes_data = {books_to_track[k].id : k \in DOMAIN books_to_track}
           /\ books_json.written => books_json.data = books_to_track
           /\ hashes_json.written => hashes_json.data = hashes_data

\* both files were written after a run with a skipped entry between two
\* entries retrieved successfully
C8_Witness ==
    /\ pc = "done"
    /\ books_json.written /\ hashes_json.written
    /\ Len(log) = 3
    /\ log[1].result = "success"
    /\ log[2].result = "skipped"
    /\ log[3].result = "success"
    /\ books_to_process[1] # books_to_process[3]

\* the origin of the site
Origin == <<"https:", "/", "/", "ncert.nic.in">>

\* a reference that carries its own scheme
IsAbsoluteRef(ref) == ref # <<>> /\ ref[1] = "https:"

\* an absolute locator on the origin: the origin, then a path that starts
\* with one slash, repeats no slash and holds no second scheme
WellFormedOnOrigin(url) ==
    /\ Len(url) > Len(Origin) + 1
    /\ SubSeq(url, 1, Len(Origin)) = Origin
    /\ url[Len(Origin) + 1] = "/"
    /\ \A k \in (Len(Origin) + 1)..(Len(url) - 1) :
           ~(url[k] = "/" /\ url[k + 1] = "/")
    /\ \A k \in (Len(Origin) + 1)..Len(url) : url[k] # "https:"

\* C9: the reference handed to download_and_extract is an absolute locator
\* on the site's origin: an absolute href is used unchanged, a
\* site-root-relative one (with or without a leading slash) is resolved
\* against the origin to a well-formed URL.
C9_ReferenceIsAbsoluteOnOrigin ==
    pc = "download"
        => /\ WellFormedOnOrigin(download_url)
           /\ IsAbsoluteRef(relative_url) => download_url = relative_url

\* a member name with the content extension, compared case-insensitively
IsContentName(name) == EndsWith(Lower(name), <<".","p","d","f">>)

\* the content members of a listing
ContentMembers(zip) == {k \in 1..Len(zip) : IsContentName(zip[k].name)}

\* the first, in archive order, of the largest content members
FirstLargest(zip) ==
    CHOOSE k \in ContentMembers(zip) :
        \A j \in ContentMembers(zip) :
            /\ zip[j].data.size <= zip[k].data.size
            /\ j < k => zip[j].data.size < zip[k].data.size

\* the call extracted the first of the largest content members
ExtractedFirstLargest ==
    /\ lastCall.member = zip_ref[FirstLargest(zip_ref)].name
    /\ lastCall.after = zip_ref[FirstLargest(zip_ref)].data

\* no two members of the listing share a name
NamesDistinct(zip) ==
    \A j, k \in 1..Len(zip) : zip[j].name = zip[k].name => j = k

SafeChars == Range(LowerLetters) \cup Range(Digits) \cup {"_", ".", "-"}

C11_SanitizeIdempotentSafeSameLength ==
    /\ pc \in {"sanitized", "sanitized_again"} =>
           /\ Len(clean) = Len(name_in)
           /\ \A k \in 1..Len(clean) : clean[k] \in SafeChars
    /\ pc = "sanitized_again" => clean_again = clean

\* a name with an upper-case letter and a character outside the class
C11_Witness ==
    /\ pc = "sanitized_again"
    /\ "Z" \in Range(name_in)
    /\ " " \in Range(name_in)
    /\ clean # name_in
    /\ Len(name_in) = MaxNameLen

(***************************************************************************)
(* C13: when the run has ended, either both books_to_track.json and        *)
(* hashes.json have been written, each with the full accumulated data, or  *)
(* neither has been written.                                               *)
(***************************************************************************)
C13_FlushAllOrNothing ==
    pc \in Terminal =>
        \/ /\ books_json = [written |-> TRUE, data |-> books_to_track]
           /\ hashes_json = [written |-> TRUE, data |-> hashes_data]
        \/ /\ books_json = NotWritten
           /\ hashes_json = NotWritten

(***************************************************************************)
(* C14: the titles recorded for each subject whose titles have been read   *)
(* are exactly, and in order, the titles the site offers for that          *)
(* subject, also when the page loads them after the selection: no title    *)
(* of another subject is recorded, and none of its own is lost.            *)
(***************************************************************************)
\* the titles of the pairs recorded under a subject, in order
TitlesRecorded(subject_name) ==
    LET own == SelectSeq(books_to_process, LAMBDA b : b.subject = subject_name)
    IN  [k \in 1..Len(own) |-> own[k].title]

C14_RecordedTitlesAreThoseOffered ==
    \A k \in 1..Len(subject_options) :
        k < sIdx => TitlesRecorded(subject_options[k]) = titlesOf[subject_options[k]]

(***************************************************************************)
(* C16: when the discovered (subject, title) pairs are pairwise distinct,  *)
(* the records of the retrieved entries have pairwise distinct ids and     *)
(* pairwise distinct output paths, and hashes_data has as many keys as     *)
(* books_to_track has records.                                             *)
(***************************************************************************)
PairsDistinct ==
    \A i, j \in DOMAIN books_to_process :
        i # j => books_to_process[i] # books_to_process[j]

C16_DistinctPairsGetDistinctIdsAndPaths ==
    PairsDistinct =>
        /\ \A i, j \in DOMAIN books_to_track :
               i # j => /\ books_to_track[i].id # books_to_track[j].id
                        /\ books_to_track[i].pdf_path # books_to_track[j].pdf_path
        /\ Cardinality(DOMAIN hashes_data) = Len(books_to_track)

(***************************************************************************)
(* C17: when write_manifests is about to be called, the hash recorded      *)
(* under every id of hashes_data is the digest of the bytes now stored at  *)
(* the output path of that id.                                             *)
(***************************************************************************)
\* the output paths of the records with an id
PathsOfId(id) ==
    {books_to_track[k].pdf_path : k \in {i \in DOMAIN books_to_track :
                                             books_to_track[i].id = id}}

C17_HashIndexMatchesStoredBytes ==
    pc = "flush" =>
        \A id \in DOMAIN hashes_data :
            \A path \in PathsOfId(id) :
                hashes_data[id] = sha256(FileAt(outFiles, prior, path))

(***************************************************************************)
(* C12: when a second run against the same catalog and the same archives,  *)
(* started on the files the first run left, has completed, its records     *)
(* have the ids of the first run's records, every output file holds the    *)
(* bytes it held after the first run, and hashes_data is the first run's.  *)
(***************************************************************************)
SameFiles(f, g) ==
    \A path \in DOMAIN f \cup DOMAIN g :
        FileAt(f, prior, path) = FileAt(g, prior, path)

C12_SecondRunRepeatsFirst ==
    (run = 2 /\ pc = "done") =>
        /\ IdsOf(books_to_track) = first_run.ids
        /\ SameFiles(outFiles, first_run.files)
        /\ hashes_data = first_run.hashes

(***************************************************************************)
(* C15: the steps taken for an entry are, in this order, reload, class     *)
(* selected, subject selected, title selected, submit, detail loaded,      *)
(* scan.  The class is selected on a newly loaded document; the subject is *)
(* selected when the subject select holds the class's subjects; the title  *)
(* is selected when the title select holds the titles of the entry's own   *)
(* subject; what is submitted is the entry's own class, subject and title; *)
(* and the page is scanned only after the anchor was found present.        *)
(***************************************************************************)
StepOrder == <<"reload", "class", "subject", "title", "submit", "detail", "scan">>

C15_ResolutionStartsOverInFixedOrder ==
    /\ Len(steps) <= Len(StepOrder)
    /\ \A k \in DOMAIN steps :
          LET st == steps[k]
          IN  /\ st.step = StepOrder[k]
              /\ st.step = "class" => st.page = FreshPage
              /\ st.step = "subject" =>
                     /\ st.page.tsubject # <<>>
                     /\ st.page.tsubject = subjectsOffered
                     /\ st.page.class = class_number
              /\ st.step = "title" =>
                     /\ st.page.tbook # <<>>
                     /\ st.page.tbook = titlesOf[st.book.subject]
                     /\ st.page.subject = st.book.subject
              /\ st.step = "submit" =>
                     /\ st.page.class = class_number
                     /\ st.page.subject = st.book.subject
                     /\ st.page.title = st.book.title
              /\ st.step = "detail" => st.page.anchor
    /\ pc = "r_scan" => steps[Len(steps)].step = "detail"

\* a second entry, of another subject with another title list than the
\* first one's, resolved up to its scan
C15_Witness ==
    /\ pc = "r_done"
    /\ Len(books_to_process) = 2
    /\ Len(steps) = Len(StepOrder)
    /\ steps[1].book = books_to_process[2]
    /\ books_to_process[1].subject # books_to_process[2].subject
    /\ titlesOf[books_to_process[1].subject] # titlesOf[books_to_process[2].subject]

====
